---- MODULE Spec2Model ----
(***************************************************************************)
(* Model of the scripture-reference API of server.js: the text helpers     *)
(* cleanPunct / oneLine, the book resolver norm / bookToCode, the promise  *)
(* timeout wrapper withTimeout, the scraper cache getScraper and the       *)
(* GET /api/verse handler with its verse -> chapter fallback.              *)
(*                                                                         *)
(* Strings are sequences of characters; a character is a one-element       *)
(* string, and the characters that cannot be typed are named:              *)
(*   "LF"   U+000A  line break, also white space (\s)                      *)
(*   "NEL"  U+0085  line break, not white space in JavaScript              *)
(*   "NBSP" U+00A0  white space                                            *)
(*   "ZWSP" U+200B  zero-width, not white space                            *)
(*   "BOM"  U+FEFF  zero-width, also white space                           *)
(*   "TAB"  U+0009  white space                                            *)
(*   "LDQ"  U+201C  opening quotation mark, "RDQ" U+201D closing one       *)
(***************************************************************************)
EXTENDS Integers, Sequences, FiniteSets, TLC

VARIABLES
    query,      \* per request: the query parameters ref and ver
    pc,         \* per request: where the handler stands
    locals,     \* per request: the handler's locals that live across awaits
    scraper,    \* per request: the scraper getScraper(ver) returned
    upstream,   \* per request: state of the scraper.verse / scraper.chapter promises
    timer,      \* per request: state of the setTimeout of each withTimeout
    race,       \* per request: state of the Promise.race of each withTimeout
    calls,      \* per request: the upstream calls issued so far, in order
    resp,       \* per request: the response sent last
    sent,       \* per request: how many responses were sent
    cache,      \* the Map of scrapers by translation id
    built,      \* per translation id: how many BibleScraper were constructed
    bible,      \* the upstream provider's chapter: verse number -> content
    fin,        \* input of the pure function under study
    fout,       \* its output
    fpc         \* which pure function is applied, and whether it has run

vars == <<query, pc, locals, scraper, upstream, timer, race, calls, resp, sent,
          cache, built, bible, fin, fout, fpc>>

serverVars == <<query, pc, locals, scraper, upstream, timer, race, calls, resp, sent,
                cache, built, bible>>

pureVars == <<fin, fout, fpc>>

----------------------------------------------------------------------------
(* Bounds *)

\* longest input string given to oneLine
MaxStrLen == 3
\* number of requests whose handlers interleave
NumReqs == 2
\* number of verses of the upstream chapter
ChapterLen == 3

----------------------------------------------------------------------------
(* Characters and strings *)

\* JavaScript's \s, restricted to the characters of the model
IsSpace(c) == c \in {" ", "TAB", "LF", "NBSP", "BOM"}

\* the class of line 61: CR, LF, VT, FF, NEL, LS, PS
IsLineBreak(c) == c \in {"LF", "NEL"}

\* the class of line 63: U+200B..U+200D and U+FEFF
IsZeroWidth(c) == c \in {"ZWSP", "BOM"}

IsDigit(c) == c \in {"0", "1", "2", "3", "4", "5", "6", "7", "8", "9"}

Lower == <<"a","b","c","d","e","f","g","h","i","j","k","l","m",
           "n","o","p","q","r","s","t","u","v","w","x","y","z">>

Upper == <<"A","B","C","D","E","F","G","H","I","J","K","L","M",
           "N","O","P","Q","R","S","T","U","V","W","X","Y","Z">>

IsLetter(c) == \E i \in 1..26 : c = Lower[i] \/ c = Upper[i]

\* String.prototype.toLowerCase / toUpperCase, one character
ToLowerChar(c) ==
    IF \E i \in 1..26 : c = Upper[i]
    THEN Lower[CHOOSE i \in 1..26 : c = Upper[i]] ELSE c

ToUpperChar(c) ==
    IF \E i \in 1..26 : c = Lower[i]
    THEN Upper[CHOOSE i \in 1..26 : c = Lower[i]] ELSE c

ToLowerCase(s) == [i \in 1..Len(s) |-> ToLowerChar(s[i])]

ToUpperCase(s) == [i \in 1..Len(s) |-> ToUpperChar(s[i])]

\* index of the first character at or after i that is not white space
\* (Len(s) + 1 when there is none): where a greedy \s* stops
RECURSIVE SkipSpace(_, _)
SkipSpace(s, i) ==
    IF i <= Len(s) /\ IsSpace(s[i]) THEN SkipSpace(s, i + 1) ELSE i

\* String.prototype.trim
RECURSIVE TrimStart(_)
TrimStart(s) ==
    IF s # <<>> /\ IsSpace(Head(s)) THEN TrimStart(Tail(s)) ELSE s

RECURSIVE TrimEnd(_)
TrimEnd(s) ==
    IF s # <<>> /\ IsSpace(s[Len(s)]) THEN TrimEnd(SubSeq(s, 1, Len(s) - 1)) ELSE s

Trim(s) == TrimEnd(TrimStart(s))

\* s.replace(/\s{2,}/g, " ") when min = 2, s.replace(/\s+/g, " ") when min = 1
RECURSIVE CollapseSpace(_, _, _)
CollapseSpace(s, i, min) ==
    IF i > Len(s) THEN <<>>
    ELSE LET j == SkipSpace(s, i) IN
         IF j - i >= min THEN <<" ">> \o CollapseSpace(s, j, min)
         ELSE IF j > i THEN SubSeq(s, i, j - 1) \o CollapseSpace(s, j, min)
         ELSE <<s[i]>> \o CollapseSpace(s, i + 1, min)

----------------------------------------------------------------------------
(* cleanPunct and oneLine *)

\* .replace(/<<\s*/g, LDQ)
RECURSIVE OpenQuotes(_, _)
OpenQuotes(s, i) ==
    IF i > Len(s) THEN <<>>
    ELSE IF i < Len(s) /\ s[i] = "<" /\ s[i + 1] = "<"
         THEN <<"LDQ">> \o OpenQuotes(s, SkipSpace(s, i + 2))
         ELSE <<s[i]>> \o OpenQuotes(s, i + 1)

\* .replace(/\s*>>/g, RDQ)
RECURSIVE CloseQuotes(_, _)
CloseQuotes(s, i) ==
    IF i > Len(s) THEN <<>>
    ELSE LET j == SkipSpace(s, i) IN
         IF j < Len(s) /\ s[j] = ">" /\ s[j + 1] = ">"
         THEN <<"RDQ">> \o CloseQuotes(s, j + 2)
         ELSE <<s[i]>> \o CloseQuotes(s, i + 1)

\* .replace(/\*/g, "") keeps the characters that are no asterisk
NotAsterisk(c) == c # "*"

cleanPunct(s) == SelectSeq(CloseQuotes(OpenQuotes(s, 1), 1), NotAsterisk)

\* .replace(/[line breaks]+/g, " "): a run of line breaks becomes one space
RECURSIVE LineBreaks(_, _)
LineBreaks(s, i) ==
    IF i > Len(s) THEN <<>>
    ELSE IF IsLineBreak(s[i])
         THEN IF i > 1 /\ IsLineBreak(s[i - 1])
              THEN LineBreaks(s, i + 1)
              ELSE <<" ">> \o LineBreaks(s, i + 1)
         ELSE <<s[i]>> \o LineBreaks(s, i + 1)

\* .replace(/NBSP/g, " ")
Nbsp(s) == [i \in 1..Len(s) |-> IF s[i] = "NBSP" THEN " " ELSE s[i]]

\* .replace(/[\u200B-\u200D\uFEFF]/g, "") keeps the characters of nonzero width
NotZeroWidth(c) == ~IsZeroWidth(c)

oneLine(s) ==
    Trim(CollapseSpace(SelectSeq(Nbsp(LineBreaks(cleanPunct(s), 1)), NotZeroWidth), 1, 2))

----------------------------------------------------------------------------
(* Name <-> code mapping *)

\* the object literal, as its own properties in insertion order:
\* <<key, value>> pairs (none of the keys is an array index, so
\* Object.keys enumerates them in this order)
NAME_TO_CODE == <<
    <<<<"g","e","n","e","s","i","s">>, <<"G","E","N">>>>,
    <<<<"e","x","o","d","u","s">>, <<"E","X","O">>>>,
    <<<<"l","e","v","i","t","i","c","u","s">>, <<"L","E","V">>>>,
    <<<<"n","u","m","b","e","r","s">>, <<"N","U","M">>>>,
    <<<<"d","e","u","t","e","r","o","n","o","m","y">>, <<"D","E","U">>>>,
    <<<<"j","o","s","h","u","a">>, <<"J","O","S">>>>,
    <<<<"j","u","d","g","e","s">>, <<"J","D","G">>>>,
    <<<<"r","u","t","h">>, <<"R","U","T">>>>,
    <<<<"1"," ","s","a","m","u","e","l">>, <<"1","S","A">>>>,
    <<<<"2"," ","s","a","m","u","e","l">>, <<"2","S","A">>>>,
    <<<<"i"," ","s","a","m","u","e","l">>, <<"1","S","A">>>>,
    <<<<"i","i"," ","s","a","m","u","e","l">>, <<"2","S","A">>>>,
    <<<<"1"," ","k","i","n","g","s">>, <<"1","K","I">>>>,
    <<<<"2"," ","k","i","n","g","s">>, <<"2","K","I">>>>,
    <<<<"i"," ","k","i","n","g","s">>, <<"1","K","I">>>>,
    <<<<"i","i"," ","k","i","n","g","s">>, <<"2","K","I">>>>,
    <<<<"1"," ","c","h","r","o","n","i","c","l","e","s">>, <<"1","C","H">>>>,
    <<<<"2"," ","c","h","r","o","n","i","c","l","e","s">>, <<"2","C","H">>>>,
    <<<<"i"," ","c","h","r","o","n","i","c","l","e","s">>, <<"1","C","H">>>>,
    <<<<"i","i"," ","c","h","r","o","n","i","c","l","e","s">>, <<"2","C","H">>>>,
    <<<<"e","z","r","a">>, <<"E","Z","R">>>>,
    <<<<"n","e","h","e","m","i","a","h">>, <<"N","E","H">>>>,
    <<<<"e","s","t","h","e","r">>, <<"E","S","T">>>>,
    <<<<"j","o","b">>, <<"J","O","B">>>>,
    <<<<"p","s","a","l","m","s">>, <<"P","S","A">>>>,
    <<<<"p","s","a","l","m">>, <<"P","S","A">>>>,
    <<<<"p","s">>, <<"P","S","A">>>>,
    <<<<"p","r","o","v","e","r","b","s">>, <<"P","R","O">>>>,
    <<<<"p","r","o","v">>, <<"P","R","O">>>>,
    <<<<"e","c","c","l","e","s","i","a","s","t","e","s">>, <<"E","C","C">>>>,
    <<<<"q","o","h","e","l","e","t","h">>, <<"E","C","C">>>>,
    <<<<"e","c","c","l","e","s">>, <<"E","C","C">>>>,
    <<<<"s","o","n","g"," ","o","f"," ","s","o","n","g","s">>, <<"S","N","G">>>>,
    <<<<"s","o","n","g"," ","o","f"," ","s","o","l","o","m","o","n">>, <<"S","N","G">>>>,
    <<<<"c","a","n","t","i","c","l","e","s">>, <<"S","N","G">>>>,
    <<<<"s","o","n","g","s">>, <<"S","N","G">>>>,
    <<<<"i","s","a","i","a","h">>, <<"I","S","A">>>>,
    <<<<"j","e","r","e","m","i","a","h">>, <<"J","E","R">>>>,
    <<<<"l","a","m","e","n","t","a","t","i","o","n","s">>, <<"L","A","M">>>>,
    <<<<"l","a","m">>, <<"L","A","M">>>>,
    <<<<"e","z","e","k","i","e","l">>, <<"E","Z","K">>>>,
    <<<<"e","z","e","c","h","i","e","l">>, <<"E","Z","K">>>>,
    <<<<"d","a","n","i","e","l">>, <<"D","A","N">>>>,
    <<<<"h","o","s","e","a">>, <<"H","O","S">>>>,
    <<<<"j","o","e","l">>, <<"J","O","L">>>>,
    <<<<"a","m","o","s">>, <<"A","M","O">>>>,
    <<<<"o","b","a","d","i","a","h">>, <<"O","B","A">>>>,
    <<<<"j","o","n","a","h">>, <<"J","O","N">>>>,
    <<<<"m","i","c","a","h">>, <<"M","I","C">>>>,
    <<<<"n","a","h","u","m">>, <<"N","A","M">>>>,
    <<<<"h","a","b","a","k","k","u","k">>, <<"H","A","B">>>>,
    <<<<"z","e","p","h","a","n","i","a","h">>, <<"Z","E","P">>>>,
    <<<<"h","a","g","g","a","i">>, <<"H","A","G">>>>,
    <<<<"z","e","c","h","a","r","i","a","h">>, <<"Z","E","C">>>>,
    <<<<"m","a","l","a","c","h","i">>, <<"M","A","L">>>>,
    <<<<"m","a","t","t","h","e","w">>, <<"M","A","T">>>>,
    <<<<"m","a","r","k">>, <<"M","R","K">>>>,
    <<<<"l","u","k","e">>, <<"L","U","K">>>>,
    <<<<"j","o","h","n">>, <<"J","H","N">>>>,
    <<<<"a","c","t","s">>, <<"A","C","T">>>>,
    <<<<"r","o","m","a","n","s">>, <<"R","O","M">>>>,
    <<<<"1"," ","c","o","r","i","n","t","h","i","a","n","s">>, <<"1","C","O">>>>,
    <<<<"2"," ","c","o","r","i","n","t","h","i","a","n","s">>, <<"2","C","O">>>>,
    <<<<"i"," ","c","o","r","i","n","t","h","i","a","n","s">>, <<"1","C","O">>>>,
    <<<<"i","i"," ","c","o","r","i","n","t","h","i","a","n","s">>, <<"2","C","O">>>>,
    <<<<"g","a","l","a","t","i","a","n","s">>, <<"G","A","L">>>>,
    <<<<"e","p","h","e","s","i","a","n","s">>, <<"E","P","H">>>>,
    <<<<"p","h","i","l","i","p","p","i","a","n","s">>, <<"P","H","P">>>>,
    <<<<"c","o","l","o","s","s","i","a","n","s">>, <<"C","O","L">>>>,
    <<<<"1"," ","t","h","e","s","s","a","l","o","n","i","a","n","s">>, <<"1","T","H">>>>,
    <<<<"2"," ","t","h","e","s","s","a","l","o","n","i","a","n","s">>, <<"2","T","H">>>>,
    <<<<"i"," ","t","h","e","s","s","a","l","o","n","i","a","n","s">>, <<"1","T","H">>>>,
    <<<<"i","i"," ","t","h","e","s","s","a","l","o","n","i","a","n","s">>, <<"2","T","H">>>>,
    <<<<"1"," ","t","i","m","o","t","h","y">>, <<"1","T","I">>>>,
    <<<<"2"," ","t","i","m","o","t","h","y">>, <<"2","T","I">>>>,
    <<<<"i"," ","t","i","m","o","t","h","y">>, <<"1","T","I">>>>,
    <<<<"i","i"," ","t","i","m","o","t","h","y">>, <<"2","T","I">>>>,
    <<<<"t","i","t","u","s">>, <<"T","I","T">>>>,
    <<<<"p","h","i","l","e","m","o","n">>, <<"P","H","M">>>>,
    <<<<"h","e","b","r","e","w","s">>, <<"H","E","B">>>>,
    <<<<"j","a","m","e","s">>, <<"J","A","S">>>>,
    <<<<"1"," ","p","e","t","e","r">>, <<"1","P","E">>>>,
    <<<<"2"," ","p","e","t","e","r">>, <<"2","P","E">>>>,
    <<<<"i"," ","p","e","t","e","r">>, <<"1","P","E">>>>,
    <<<<"i","i"," ","p","e","t","e","r">>, <<"2","P","E">>>>,
    <<<<"1"," ","j","o","h","n">>, <<"1","J","N">>>>,
    <<<<"2"," ","j","o","h","n">>, <<"2","J","N">>>>,
    <<<<"3"," ","j","o","h","n">>, <<"3","J","N">>>>,
    <<<<"i"," ","j","o","h","n">>, <<"1","J","N">>>>,
    <<<<"i","i"," ","j","o","h","n">>, <<"2","J","N">>>>,
    <<<<"i","i","i"," ","j","o","h","n">>, <<"3","J","N">>>>,
    <<<<"j","u","d","e">>, <<"J","U","D">>>>,
    <<<<"r","e","v","e","l","a","t","i","o","n">>, <<"R","E","V">>>>,
    <<<<"r","e","v","e","l","a","t","i","o","n","s">>, <<"R","E","V">>>>,
    <<<<"a","p","o","c","a","l","y","p","s","e">>, <<"R","E","V">>>>
    >>

\* Object.keys(NAME_TO_CODE)
Keys == [i \in 1..Len(NAME_TO_CODE) |-> NAME_TO_CODE[i][1]]

\* new Set(Object.values(NAME_TO_CODE))
VALID_CODES == {NAME_TO_CODE[i][2] : i \in 1..Len(NAME_TO_CODE)}

\* null and undefined
Null == <<"null">>

\* the properties a plain object inherits from Object.prototype whose names
\* survive norm (no upper-case letter): NAME_TO_CODE.constructor is the
\* function Object, NAME_TO_CODE.__proto__ is Object.prototype
ObjectConstructor == <<"function Object">>

ObjectPrototype == <<"[object Object]">>

Inherited(k) ==
    IF k = <<"c","o","n","s","t","r","u","c","t","o","r">> THEN ObjectConstructor
    ELSE IF k = <<"_","_","p","r","o","t","o","_","_">> THEN ObjectPrototype
    ELSE Null

\* NAME_TO_CODE[k]: an own property, else one found on the prototype chain,
\* else undefined
Get(k) ==
    IF \E i \in 1..Len(NAME_TO_CODE) : NAME_TO_CODE[i][1] = k
    THEN NAME_TO_CODE[CHOOSE i \in 1..Len(NAME_TO_CODE) : NAME_TO_CODE[i][1] = k][2]
    ELSE Inherited(k)

NotPeriod(c) == c # "."

NotSpace(c) == ~IsSpace(c)

\* String(s).replace(/\./g, "").replace(/\s+/g, " ").trim().toLowerCase()
norm(s) == ToLowerCase(Trim(CollapseSpace(SelectSeq(s, NotPeriod), 1, 1)))

\* k.startsWith(clean)
StartsWith(k, clean) ==
    Len(clean) <= Len(k) /\ SubSeq(k, 1, Len(clean)) = clean

\* Object.keys(NAME_TO_CODE).find(k => k.startsWith(clean)): the index of the
\* first such key at or after i, 0 when find returns undefined
RECURSIVE Find(_, _)
Find(clean, i) ==
    IF i > Len(Keys) THEN 0
    ELSE IF StartsWith(Keys[i], clean) THEN i
    ELSE Find(clean, i + 1)

bookToCode(raw) ==
    LET clean == norm(raw)
        maybeCode == ToUpperCase(SelectSeq(clean, NotSpace))
        hit == Find(clean, 1)
    IN  IF maybeCode \in VALID_CODES THEN maybeCode
        ELSE IF Get(clean) # Null THEN Get(clean)
        ELSE IF hit # 0 THEN Get(Keys[hit])
        ELSE Null

----------------------------------------------------------------------------
(* Numbers and their conversions *)

\* Number values are the naturals and two values that are no natural:
\* NaN, and undefined where a number is expected
NaN == -1

Undef == -2

\* an absent query parameter or an unmatched capture group
Undefined == <<"undefined">>

\* a value used as a condition: 0, NaN and undefined are falsy
Truthy(x) == x \notin {0, NaN, Undef}

\* a string used as a condition: undefined and "" are falsy
TruthyStr(s) == s # Undefined /\ s # <<>>

DigitSeq == <<"0", "1", "2", "3", "4", "5", "6", "7", "8", "9">>

DigitVal(c) == (CHOOSE i \in 1..10 : DigitSeq[i] = c) - 1

AllDigits(s) == \A i \in 1..Len(s) : IsDigit(s[i])

RECURSIVE Decimal(_)
Decimal(s) ==
    IF s = <<>> THEN 0
    ELSE 10 * Decimal(SubSeq(s, 1, Len(s) - 1)) + DigitVal(s[Len(s)])

\* Number(s) for undefined and for strings of digits, letters, white space
\* and punctuation (no sign, exponent, radix prefix or "Infinity")
Number(s) ==
    IF s = Undefined THEN NaN
    ELSE IF Trim(s) = <<>> THEN 0
    ELSE IF AllDigits(Trim(s)) THEN Decimal(Trim(s))
    ELSE NaN

\* String(n) of a natural, as a template literal formats it
RECURSIVE NumToString(_)
NumToString(n) ==
    IF n < 10 THEN <<DigitSeq[n + 1]>>
    ELSE NumToString(n \div 10) \o <<DigitSeq[(n % 10) + 1]>>

----------------------------------------------------------------------------
(* The reference pattern                                                   *)
(*   /^([\d]?\s*[A-Za-z .]+)\s+(\d+)(?::(\d+)(?:-(\d+))?)?$/               *)

IsBookChar(c) == IsLetter(c) \/ c = " " \/ c = "."

\* s[1..b] matches [\d]?\s*[A-Za-z .]+
BookMatches(s, b) ==
    \E d \in {0, 1} : \E w \in 0..b :
        /\ d = 1 => (b >= 1 /\ IsDigit(s[1]))
        /\ d + w < b
        /\ \A i \in (d + 1)..(d + w) : IsSpace(s[i])
        /\ \A i \in (d + w + 1)..b : IsBookChar(s[i])

\* index after the run of digits that starts at i: where a greedy \d+ stops
RECURSIVE DigitsEnd(_, _)
DigitsEnd(s, i) ==
    IF i <= Len(s) /\ IsDigit(s[i]) THEN DigitsEnd(s, i + 1) ELSE i

\* the capture groups 2..4 when s from index i on matches
\* (\d+)(?::(\d+)(?:-(\d+))?)?$, and <<>> when it does not
TailGroups(s, i) ==
    LET n  == Len(s)
        ce == DigitsEnd(s, i)
        ve == DigitsEnd(s, ce + 1)
        ee == DigitsEnd(s, ve + 1)
    IN  IF ce = i THEN <<>>
        ELSE IF ce = n + 1 THEN <<SubSeq(s, i, n), Undefined, Undefined>>
        ELSE IF s[ce] # ":" \/ ve = ce + 1 THEN <<>>
        ELSE IF ve = n + 1
             THEN <<SubSeq(s, i, ce - 1), SubSeq(s, ce + 1, n), Undefined>>
        ELSE IF s[ve] # "-" \/ ee = ve + 1 \/ ee # n + 1 THEN <<>>
        ELSE <<SubSeq(s, i, ce - 1), SubSeq(s, ce + 1, ve - 1), SubSeq(s, ve + 1, n)>>

\* the ways the pattern splits s: the book is s[1..b], \s+ is s[b+1..w]
Splits(s) ==
    {bw \in (1..Len(s)) \X (1..Len(s)) :
        /\ bw[1] < bw[2]
        /\ BookMatches(s, bw[1])
        /\ \A i \in (bw[1] + 1)..bw[2] : IsSpace(s[i])
        /\ TailGroups(s, bw[2] + 1) # <<>>}

\* input.match(pattern): <<>> for null, else the groups
\* <<rawBook, chapStr, vStartStr, vEndStr>>; the greedy first group takes
\* the longest book
Match(s) ==
    LET sp == Splits(s)
    IN  IF sp = {} THEN <<>>
        ELSE LET bw == CHOOSE x \in sp : \A y \in sp : y[1] <= x[1]
             IN  <<SubSeq(s, 1, bw[1])>> \o TailGroups(s, bw[2] + 1)

----------------------------------------------------------------------------
(* The upstream provider (bible-scraper): one chapter of ChapterLen verses  *)

Reqs == 1..NumReqs

\* the text after the last "." of a reference: String(ref).split(".").pop()
RECURSIVE LastField(_)
LastField(ref) ==
    IF ref = <<>> \/ ref[Len(ref)] = "." THEN <<>>
    ELSE LastField(SubSeq(ref, 1, Len(ref) - 1)) \o <<ref[Len(ref)]>>

\* Number(String(v.reference).split(".").pop())
VerseNo(ref) == Number(LastField(ref))

\* what scraper.chapter(chapterRef) resolves with
ChapterResult(chapterRef) ==
    [verses |-> [n \in 1..ChapterLen |->
        [reference |-> chapterRef \o <<".">> \o NumToString(n),
         content   |-> bible[n]]]]

\* scraper.verse(verseRef) can resolve only for a verse the chapter has
VerseExists(verseRef) == VerseNo(verseRef) \in 1..ChapterLen

\* what scraper.verse(verseRef) resolves with
VerseResult(verseRef) ==
    [reference |-> verseRef, content |-> bible[VerseNo(verseRef)]]

----------------------------------------------------------------------------
(* withTimeout and getScraper *)

\* Settles of a race that hands every settlement to the handler
Settles_Always(st) == st # "none"

\* Promise.race takes the outcome of whichever of the fetch and the timer
\* settles first: a settlement reaches the awaiting handler only while the
\* race is pending
Settles(st) == st = "pending"

\* CacheHas looking up a key the cache never holds, as cache.has(String(id))
CacheHas_Never(c, id) == FALSE /\ id \in DOMAIN c

\* cache.has(id)
CacheHas(c, id) == id \in DOMAIN c

\* new BibleScraper(id): the instance is told apart by its id and by how many
\* were constructed for that id before it
NewScraper(id) == <<id, (IF id \in DOMAIN built THEN built[id] ELSE 0) + 1>>

\* the cache after getScraper(id)
getScraper(id) ==
    IF ~CacheHas(cache, id)
    THEN [k \in DOMAIN cache \cup {id} |-> IF k = id THEN NewScraper(id) ELSE cache[k]]
    ELSE cache

\* the number of constructions after getScraper(id)
Constructed(id) ==
    IF ~CacheHas(cache, id)
    THEN [k \in DOMAIN built \cup {id} |-> IF k = id THEN NewScraper(id)[2] ELSE built[k]]
    ELSE built

----------------------------------------------------------------------------
(* GET /api/verse: the synchronous part, up to the first await *)

MissingMsg == "Missing ref or ver"

BadReferenceMsg == "Bad reference. Try 'John 3:16'."

UnknownBookMsg == "Unknown book"

UpstreamTimeoutMsg == "Upstream timeout. Please try again."

\* String(req.query.ref || "").trim()
Input(q) == Trim(IF TruthyStr(q.ref) THEN q.ref ELSE <<>>)

\* Number(req.query.ver)
Ver(q) == Number(q.ver)

\* IsMissing with && for ||
IsMissing_Both(q) == ~TruthyStr(Input(q)) /\ ~Truthy(Ver(q))

\* !input || !ver
IsMissing(q) == ~TruthyStr(Input(q)) \/ ~Truthy(Ver(q))

\* vStartStr ? Number(vStartStr) : undefined
VStart(m) == IF TruthyStr(m[3]) THEN Number(m[3]) ELSE Undef

\* vEndStr ? Number(vEndStr) : vStart
VEnd(m) == IF TruthyStr(m[4]) THEN Number(m[4]) ELSE VStart(m)

\* if (vStart)
IsVerseLookup(vStart) == Truthy(vStart)

NoLocals == [input |-> <<>>, ver |-> Undef, rawBook |-> <<>>, chapter |-> Undef,
             vStart |-> Undef, vEnd |-> Undef, code |-> Null,
             chapterRef |-> Null, verseRef |-> Null, outcome |-> "none"]

\* the synchronous part of the handler on query q: the way it leaves
\* (outcome) and the locals it has computed by then
Parse(q) ==
    LET input == Input(q)
        m     == Match(input)
    IN  IF IsMissing(q)
        THEN [NoLocals EXCEPT !.outcome = "missing", !.input = input, !.ver = Ver(q)]
        ELSE IF m = <<>>
        THEN [NoLocals EXCEPT !.outcome = "badref", !.input = input, !.ver = Ver(q)]
        ELSE LET code       == bookToCode(m[1])
                 chapter    == Number(m[2])
                 vStart     == VStart(m)
                 chapterRef == code \o <<".">> \o NumToString(chapter)
             IN  [input      |-> input,
                  ver        |-> Ver(q),
                  rawBook    |-> m[1],
                  chapter    |-> chapter,
                  vStart     |-> vStart,
                  vEnd       |-> VEnd(m),
                  code       |-> code,
                  chapterRef |-> IF code = Null THEN Null ELSE chapterRef,
                  verseRef   |-> IF code # Null /\ IsVerseLookup(vStart)
                                 THEN chapterRef \o <<".">> \o NumToString(vStart)
                                 ELSE Null,
                  outcome    |-> IF code = Null THEN "unknown"
                                 ELSE IF IsVerseLookup(vStart) THEN "verse"
                                 ELSE "chapter"]

----------------------------------------------------------------------------
(* Responses *)

NoResp == [status |-> 0, ok |-> FALSE, error |-> "", kind |-> "none",
           content |-> <<>>, verses |-> <<>>, reference |-> <<>>, covers |-> <<>>]

\* res.status(status).json({ ok:false, error })
ErrorResp(status, error) == [NoResp EXCEPT !.status = status, !.error = error, !.kind = "error"]

\* UpstreamFailure answered as an internal error: res.status(500)
UpstreamFailure_500 == ErrorResp(500, UpstreamTimeoutMsg)

\* res.status(504).json({ ok:false, error:"Upstream timeout. Please try again." })
UpstreamFailure == ErrorResp(504, UpstreamTimeoutMsg)

\* InRange with the first verse left out: n > vStart && n <= vEnd
InRange_Exclusive(n, vStart, vEnd) == n # NaN /\ n > vStart /\ n <= vEnd

\* n >= vStart && n <= vEnd (a comparison with NaN is false)
InRange(n, vStart, vEnd) == n # NaN /\ n >= vStart /\ n <= vEnd

\* (ch.verses || []).filter(v => InRange(...)): the indexes kept, in order
Filter(verses, vStart, vEnd) ==
    SelectSeq([i \in 1..Len(verses) |-> i],
              LAMBDA i : InRange(VerseNo(verses[i].reference), vStart, vEnd))

\* Array.prototype.join(" ")
RECURSIVE Join(_)
Join(strs) ==
    IF strs = <<>> THEN <<>>
    ELSE IF Len(strs) = 1 THEN strs[1]
    ELSE strs[1] \o <<" ">> \o Join(Tail(strs))

\* the slice of the fallback: filter, map(oneLine), join(" ")
Slice(ch, vStart, vEnd) ==
    LET kept == Filter(ch.verses, vStart, vEnd)
    IN  Join([i \in 1..Len(kept) |-> oneLine(ch.verses[kept[i]].content)])

\* res.json({ ok:true, data: { ...v, content: oneLine(v.content) } })
VerseResp(v) ==
    [NoResp EXCEPT !.status = 200, !.ok = TRUE, !.kind = "verse",
                   !.content = oneLine(v.content), !.reference = v.reference,
                   !.covers = <<VerseNo(v.reference)>>]

\* res.json({ ok:true, data: { content: oneLine(slice), reference: input } })
SliceResp(ch, l) ==
    LET kept == Filter(ch.verses, l.vStart, l.vEnd)
    IN  [NoResp EXCEPT !.status = 200, !.ok = TRUE, !.kind = "slice",
                       !.content = oneLine(Slice(ch, l.vStart, l.vEnd)),
                       !.reference = l.input,
                       !.covers = [i \in 1..Len(kept) |-> VerseNo(ch.verses[kept[i]].reference)]]

\* res.json({ ok:true, data: { ...ch, verses: ch.verses.map(oneLine content) } })
ChapterResp(ch) ==
    [NoResp EXCEPT !.status = 200, !.ok = TRUE, !.kind = "chapter",
                   !.verses = [i \in 1..Len(ch.verses) |-> oneLine(ch.verses[i].content)],
                   !.covers = [i \in 1..Len(ch.verses) |-> VerseNo(ch.verses[i].reference)]]

----------------------------------------------------------------------------
(* The requests and upstream contents the model draws from *)

\* values of the ref parameter (besides its absence)
RefSamples == {
    <<"J","o","h","n"," ","3",":","1">>,    \* "John 3:1"
    <<"J","o","h","n"," ","3",":","2","-","3">>,    \* "John 3:2-3"
    <<"J","o","h","n"," ","3",":","1","-","3">>,    \* "John 3:1-3"
    <<"J","o","h","n"," ","3",":","3","-","5">>,    \* "John 3:3-5"
    <<" ","P","s"," "," ","2","3",":","2"," ">>,    \* " Ps  23:2 "
    <<"1"," ","C","o","r","."," ","1","3",":","1","-","2">>,    \* "1 Cor. 13:1-2"
    <<"j","o"," ","1",":","3">>,    \* "jo 1:3"
    <<"J","H","N"," ","0","3",":","0","2">>,    \* "JHN 03:02"
    <<"J","o","h","n"," ","3",":","3","-","1">>,    \* "John 3:3-1"
    <<"J","o","h","n"," ","3",":","0">>,    \* "John 3:0"
    <<"J","o","h","n"," ","3",":","0","-","2">>,    \* "John 3:0-2"
    <<"J","o","h","n"," ","0",":","1">>,    \* "John 0:1"
    <<"J","o","h","n"," ","0">>,    \* "John 0"
    <<"J","o","h","n"," ","3">>,    \* "John 3"
    <<"G","e","n","e","s","i","s"," ","1">>,    \* "Genesis 1"
    <<"1"," ","C","o","r","."," ","1","3">>,    \* "1 Cor. 13"
    <<"n","o","t"," ","a"," ","r","e","f","e","r","e","n","c","e">>,    \* "not a reference"
    <<"J","o","h","n">>,    \* "John"
    <<"J","o","h","n"," ","3",":">>,    \* "John 3:"
    <<"3",":","1","6">>,    \* "3:16"
    <<"J","o","h","n"," ","3","-","4">>,    \* "John 3-4"
    <<"X","y","z"," ","1",":","1">>,    \* "Xyz 1:1"
    <<"c","o","n","s","t","r","u","c","t","o","r"," ","1",":","1">>,    \* "constructor 1:1"
    <<>>,    \* ""
    <<" "," ">>    \* "  "
    }

\* values of the ver parameter (besides its absence)
VerSamples == {
    <<>>,    \* ""
    <<"0">>,    \* "0"
    <<"a","b","c">>,    \* "abc"
    <<"1">>,    \* "1"
    <<"2">>,    \* "2"
    <<"0","1">>    \* "01"
    }

Queries == [ref : RefSamples \cup {Undefined}, ver : VerSamples \cup {Undefined}]

\* the queries of the interleaved requests: a verse range and a chapter of
\* one translation, the chapter in another translation, an unknown book
InterleavedQueries == {
    [ref |-> <<"J","o","h","n"," ","3",":","1","-","2">>, ver |-> <<"1">>],
    [ref |-> <<"J","o","h","n"," ","3">>, ver |-> <<"1">>],
    [ref |-> <<"J","o","h","n"," ","3">>, ver |-> <<"2">>],
    [ref |-> <<"X","y","z"," ","1">>, ver |-> <<"1">>]
    }

\* contents of a verse as the provider returns it: plain, empty (a verse the
\* translation omits), and one with quote markers, an asterisk, a line break
\* and white space at both ends
Texts == {
    <<"a">>,
    <<>>,
    <<" ","<","<","b","*",">",">","LF">>
    }

Bibles == [1..ChapterLen -> Texts]

PlainBible == [n \in 1..ChapterLen |-> <<"a">>]

----------------------------------------------------------------------------
(* GET /api/verse as a state machine *)

NoCall == [verse |-> "none", chapter |-> "none"]

\* res.json(...) / res.status(...).json(...); the handler returns
Send(r, response) ==
    /\ resp' = [resp EXCEPT ![r] = response]
    /\ sent' = [sent EXCEPT ![r] = @ + 1]
    /\ pc' = [pc EXCEPT ![r] = "done"]

\* withTimeout(scraper.verse(verseRef), TO.verse, "verse fetch")
IssueVerse(r) ==
    /\ upstream' = [upstream EXCEPT ![r].verse = "pending"]
    /\ timer' = [timer EXCEPT ![r].verse = "armed"]
    /\ race' = [race EXCEPT ![r].verse = "pending"]
    /\ calls' = [calls EXCEPT ![r] = Append(@, "verse")]
    /\ pc' = [pc EXCEPT ![r] = "awaitVerse"]

\* withTimeout(scraper.chapter(chapterRef), TO.chapter, "chapter fetch"),
\* up and tm being the request's promises and timers as the event left them
IssueChapter(r, up, tm, rc) ==
    /\ upstream' = [upstream EXCEPT ![r] = [up EXCEPT !.chapter = "pending"]]
    /\ timer' = [timer EXCEPT ![r] = [tm EXCEPT !.chapter = "armed"]]
    /\ race' = [race EXCEPT ![r] = [rc EXCEPT !.chapter = "pending"]]
    /\ calls' = [calls EXCEPT ![r] = Append(@, "chapter")]
    /\ pc' = [pc EXCEPT ![r] = "awaitChapter"]

\* Parse on every query of the model, tabulated (@@ makes the table explicit)
Parsed == [q \in Queries \cup InterleavedQueries |-> Parse(q)] @@ <<>>

\* the handler from its entry to its first await, or to its 400
Handle(r) ==
    /\ pc[r] = "new"
    /\ LET l == Parsed[query[r]]
       IN  /\ locals' = [locals EXCEPT ![r] = l]
           /\ IF l.outcome = "missing"
              THEN /\ Send(r, ErrorResp(400, MissingMsg))
                   /\ UNCHANGED <<upstream, timer, race, calls, cache, built, scraper>>
              ELSE IF l.outcome = "badref"
              THEN /\ Send(r, ErrorResp(400, BadReferenceMsg))
                   /\ UNCHANGED <<upstream, timer, race, calls, cache, built, scraper>>
              ELSE IF l.outcome = "unknown"
              THEN /\ Send(r, [ErrorResp(400, UnknownBookMsg) EXCEPT !.reference = l.rawBook])
                   /\ UNCHANGED <<upstream, timer, race, calls, cache, built, scraper>>
              ELSE /\ cache' = getScraper(l.ver)
                   /\ built' = Constructed(l.ver)
                   /\ scraper' = [scraper EXCEPT ![r] = getScraper(l.ver)[l.ver]]
                   /\ IF l.outcome = "verse"
                      THEN IssueVerse(r)
                      ELSE IssueChapter(r, upstream[r], timer[r], race[r])
                   /\ UNCHANGED <<resp, sent>>
    /\ UNCHANGED <<query, bible, pureVars>>

\* the handler resumed by the verse race: the response of line 154, or the
\* catch of line 155 and the chapter fallback
AfterVerse(r, outcome, up, tm) ==
    IF outcome = "fulfilled"
    THEN /\ Send(r, VerseResp(VerseResult(locals[r].verseRef)))
         /\ upstream' = [upstream EXCEPT ![r] = up]
         /\ timer' = [timer EXCEPT ![r] = tm]
         /\ race' = [race EXCEPT ![r].verse = outcome]
         /\ UNCHANGED calls
    ELSE /\ IssueChapter(r, up, tm, [race[r] EXCEPT !.verse = outcome])
         /\ UNCHANGED <<resp, sent>>

\* the handler resumed by the chapter race: the slice of a verse lookup or
\* the normalized chapter, or the 504 of the catch
AfterChapter(r, outcome, up, tm) ==
    /\ upstream' = [upstream EXCEPT ![r] = up]
    /\ timer' = [timer EXCEPT ![r] = tm]
    /\ race' = [race EXCEPT ![r].chapter = outcome]
    /\ UNCHANGED calls
    /\ IF outcome = "fulfilled"
       THEN IF IsVerseLookup(locals[r].vStart)
            THEN Send(r, SliceResp(ChapterResult(locals[r].chapterRef), locals[r]))
            ELSE Send(r, ChapterResp(ChapterResult(locals[r].chapterRef)))
       ELSE Send(r, UpstreamFailure)

\* an event the race ignores: only the promise or the timer changes
Ignored(r, up, tm) ==
    /\ upstream' = [upstream EXCEPT ![r] = up]
    /\ timer' = [timer EXCEPT ![r] = tm]
    /\ UNCHANGED <<race, calls, resp, sent, pc>>

\* scraper.verse(verseRef) resolves (ok) or rejects
VerseSettle(r, ok) ==
    /\ upstream[r].verse = "pending"
    /\ ok => VerseExists(locals[r].verseRef)
    /\ LET up == [upstream[r] EXCEPT !.verse = IF ok THEN "resolved" ELSE "rejected"]
       IN  IF Settles(race[r].verse)
           THEN AfterVerse(r, IF ok THEN "fulfilled" ELSE "rejected", up, timer[r])
           ELSE Ignored(r, up, timer[r])
    /\ UNCHANGED <<query, locals, scraper, cache, built, bible, pureVars>>

\* the setTimeout of the verse race fires
VerseTimer(r) ==
    /\ timer[r].verse = "armed"
    /\ LET tm == [timer[r] EXCEPT !.verse = "fired"]
       IN  IF Settles(race[r].verse)
           THEN AfterVerse(r, "timedout", upstream[r], tm)
           ELSE Ignored(r, upstream[r], tm)
    /\ UNCHANGED <<query, locals, scraper, cache, built, bible, pureVars>>

\* scraper.chapter(chapterRef) resolves (ok) or rejects
ChapterSettle(r, ok) ==
    /\ upstream[r].chapter = "pending"
    /\ LET up == [upstream[r] EXCEPT !.chapter = IF ok THEN "resolved" ELSE "rejected"]
       IN  IF Settles(race[r].chapter)
           THEN AfterChapter(r, IF ok THEN "fulfilled" ELSE "rejected", up, timer[r])
           ELSE Ignored(r, up, timer[r])
    /\ UNCHANGED <<query, locals, scraper, cache, built, bible, pureVars>>

\* the setTimeout of the chapter race fires
ChapterTimer(r) ==
    /\ timer[r].chapter = "armed"
    /\ LET tm == [timer[r] EXCEPT !.chapter = "fired"]
       IN  IF Settles(race[r].chapter)
           THEN AfterChapter(r, "timedout", upstream[r], tm)
           ELSE Ignored(r, upstream[r], tm)
    /\ UNCHANGED <<query, locals, scraper, cache, built, bible, pureVars>>

Next ==
    \E r \in Reqs :
        \/ Handle(r)
        \/ \E ok \in BOOLEAN : VerseSettle(r, ok)
        \/ VerseTimer(r)
        \/ \E ok \in BOOLEAN : ChapterSettle(r, ok)
        \/ ChapterTimer(r)

\* the server before any handler ran
Idle ==
    /\ locals = [r \in Reqs |-> NoLocals]
    /\ scraper = [r \in Reqs |-> <<>>]
    /\ upstream = [r \in Reqs |-> NoCall]
    /\ timer = [r \in Reqs |-> NoCall]
    /\ race = [r \in Reqs |-> NoCall]
    /\ calls = [r \in Reqs |-> <<>>]
    /\ resp = [r \in Reqs |-> NoResp]
    /\ sent = [r \in Reqs |-> 0]
    /\ cache = <<>>
    /\ built = <<>>

NoPure == fin = <<>> /\ fout = <<>> /\ fpc = "none"

\* NumReqs requests arrive, their handlers interleave at the awaits
Init ==
    /\ query \in [Reqs -> InterleavedQueries]
    /\ pc = [r \in Reqs |-> "new"]
    /\ bible = PlainBible
    /\ Idle
    /\ NoPure

Spec == Init /\ [][Next]_vars

\* one request, any query, any upstream content
InitRequest ==
    /\ \E q \in Queries : query = [r \in Reqs |-> q]
    /\ pc = [r \in Reqs |-> IF r = 1 THEN "new" ELSE "absent"]
    /\ bible \in Bibles
    /\ Idle
    /\ NoPure

SpecRequest == InitRequest /\ [][Next]_vars

\* a handler runs once its request is received and a setTimeout callback
\* once its delay has passed; nothing makes the provider answer
Fairness ==
    \A r \in Reqs : /\ WF_vars(Handle(r))
                    /\ WF_vars(VerseTimer(r))
                    /\ WF_vars(ChapterTimer(r))

FairRequest == SpecRequest /\ Fairness

----------------------------------------------------------------------------
(* oneLine and bookToCode on their own *)

Alphabet == {"<", ">", "*", "LF", "NEL", "NBSP", "ZWSP", "BOM", "TAB", " ", "a"}

Strings == UNION {[1..n -> Alphabet] : n \in 0..MaxStrLen}

\* every prefix of every alias
KeyPrefixes == UNION {{SubSeq(Keys[i], 1, n) : n \in 0..Len(Keys[i])} : i \in 1..Len(Keys)}

\* names with periods, capitals and extra white space, codes in small
\* letters, names that resolve to nothing: "1 Cor.", "I CORINTHIANS",
\* " John ", "J o b", "XYZ", "constructor", "Jn", "1  samuel",
\* "Song.of.songs", "ps.", "1co", "3 Jn", "zz"
OtherBooks == {
    <<"1"," ","C","o","r",".">>,
    <<"I"," ","C","O","R","I","N","T","H","I","A","N","S">>,
    <<" ","J","o","h","n"," ">>,
    <<"J"," ","o"," ","b">>,
    <<"X","Y","Z">>,
    <<"c","o","n","s","t","r","u","c","t","o","r">>,
    <<"J","n">>,
    <<"1"," "," ","s","a","m","u","e","l">>,
    <<"S","o","n","g",".","o","f",".","s","o","n","g","s">>,
    <<"p","s",".">>,
    <<"1","c","o">>,
    <<"3"," ","J","n">>,
    <<"z","z">>
    }

RawBooks ==
    KeyPrefixes \cup {ToUpperCase(k) : k \in KeyPrefixes}
        \cup VALID_CODES \cup {ToLowerCase(c) : c \in VALID_CODES} \cup OtherBooks

NoServer ==
    /\ query = [r \in Reqs |-> [ref |-> Undefined, ver |-> Undefined]]
    /\ pc = [r \in Reqs |-> "absent"]
    /\ bible = PlainBible
    /\ Idle

InitOneLine == NoServer /\ fin \in Strings /\ fout = <<>> /\ fpc = "oneLine"

ApplyOneLine ==
    /\ fpc = "oneLine"
    /\ fout' = oneLine(fin)
    /\ fpc' = "oneLine.done"
    /\ UNCHANGED <<fin, serverVars>>

SpecOneLine == InitOneLine /\ [][ApplyOneLine]_vars

InitBook == NoServer /\ fin \in RawBooks /\ fout = <<>> /\ fpc = "bookToCode"

ApplyBookToCode ==
    /\ fpc = "bookToCode"
    /\ fout' = bookToCode(fin)
    /\ fpc' = "bookToCode.done"
    /\ UNCHANGED <<fin, serverVars>>

SpecBook == InitBook /\ [][ApplyBookToCode]_vars

----------------------------------------------------------------------------
(* Properties *)

\* request r has run its synchronous part
Handled(r) == pc[r] \notin {"absent", "new"}

\* request r passed validation and reached retrieval
Retrieving(r) == Handled(r) /\ locals[r].outcome \in {"verse", "chapter"}

\* the verse race of r was lost: the fetch rejected or the timer fired first
VerseLost(r) == race[r].verse \in {"rejected", "timedout"}

ChapterLost(r) == race[r].chapter \in {"rejected", "timedout"}

\* the verses of the upstream chapter numbered lo..hi, in chapter order
VersesBetween(lo, hi) ==
    SelectSeq([n \in 1..ChapterLen |-> n], LAMBDA n : lo <= n /\ n <= hi)

\* strings joined by single spaces
RECURSIVE SpaceJoined(_)
SpaceJoined(strs) ==
    IF strs = <<>> THEN <<>>
    ELSE IF Len(strs) = 1 THEN strs[1]
    ELSE SpaceJoined(SubSeq(strs, 1, Len(strs) - 1)) \o <<" ">> \o strs[Len(strs)]

\* the normalized contents of the verses vStart..vEnd of r's request
NormalizedRange(r) ==
    LET ns == VersesBetween(locals[r].vStart, locals[r].vEnd)
    IN  [i \in 1..Len(ns) |-> oneLine(bible[ns[i]])]

\* C1 as stated: when the verse race of a verse request is lost and the
\* chapter race is won, the answer is 200, ok, and its content is the
\* normalized contents of the chapter's verses vStart..vEnd joined by
\* single spaces.
C1_SliceIsJoin ==
    \A r \in Reqs :
        (Retrieving(r) /\ VerseLost(r) /\ race[r].chapter = "fulfilled")
            => /\ resp[r].status = 200
               /\ resp[r].ok
               /\ resp[r].content = SpaceJoined(NormalizedRange(r))

\* C1 amended: the content is oneLine applied to that join, so a verse whose
\* normalized content is empty leaves no second space, and the join is
\* normalized once more.
C1_SliceIsNormalizedJoin ==
    \A r \in Reqs :
        (Retrieving(r) /\ VerseLost(r) /\ race[r].chapter = "fulfilled")
            => /\ resp[r].status = 200
               /\ resp[r].ok
               /\ resp[r].content = oneLine(SpaceJoined(NormalizedRange(r)))

\* a fallback answered with two verses, the first of them empty
C1_Witness ==
    \E r \in Reqs :
        /\ VerseLost(r) /\ race[r].chapter = "fulfilled"
        /\ resp[r].kind = "slice"
        /\ Len(resp[r].covers) = 2
        /\ bible[resp[r].covers[1]] = <<>>
        /\ resp[r].content # <<>>

\* C2: a validated request none of whose upstream attempts wins its race,
\* also when the provider never answers, is eventually answered 504
\* "Upstream timeout. Please try again.".
C2_Eventually504 ==
    \A r \in Reqs :
        Retrieving(r) ~>
            /\ pc[r] = "done"
            /\ (race[r].verse # "fulfilled" /\ race[r].chapter # "fulfilled")
                   => /\ resp[r].status = 504
                      /\ ~resp[r].ok
                      /\ resp[r].error = UpstreamTimeoutMsg

\* a verse request answered 504 while both upstream calls are still pending
C2_Witness ==
    \E r \in Reqs :
        /\ resp[r].status = 504
        /\ calls[r] = <<"verse", "chapter">>
        /\ upstream[r].verse = "pending" /\ upstream[r].chapter = "pending"

\* C3: oneLine is idempotent.
C3_Idempotent == fpc = "oneLine.done" => oneLine(fout) = fout

\* the groups of the reference of r, as the pattern captured them
Groups(r) == Match(locals[r].input)

\* C4: an accepted reference has chapter >= 1, verseStart absent or >= 1,
\* verseEnd >= verseStart when verseStart is present and equal to it when no
\* range end was written, and is handled as a verse lookup exactly when a
\* verse was written.
C4_ParsedReference ==
    \A r \in Reqs :
        (Handled(r) /\ locals[r].outcome \in {"unknown", "verse", "chapter"})
            => /\ locals[r].chapter >= 1
               /\ locals[r].vStart = Undef \/ locals[r].vStart >= 1
               /\ locals[r].vStart # Undef
                      => /\ locals[r].vEnd # Undef
                         /\ locals[r].vEnd >= locals[r].vStart
                         /\ Groups(r)[4] = Undefined => locals[r].vEnd = locals[r].vStart
               /\ locals[r].outcome # "unknown"
                      => (locals[r].outcome = "verse" <=> Groups(r)[3] # Undefined)

\* the ref parameter is absent, or empty once trimmed
RefAbsent(q) == q.ref = Undefined \/ \A i \in 1..Len(q.ref) : IsSpace(q.ref[i])

\* the ver parameter is absent (or empty), or is no number
VerAbsentOrNotNumeric(q) ==
    \/ q.ver = Undefined
    \/ q.ver = <<>>
    \/ \E i \in 1..Len(q.ver) : ~IsDigit(q.ver[i])

\* the ver parameter is a number, and that number is zero
VerZero(q) ==
    /\ ~VerAbsentOrNotNumeric(q)
    /\ \A i \in 1..Len(q.ver) : q.ver[i] = "0"

AnsweredMissing(r) == resp[r].status = 400 /\ resp[r].error = MissingMsg

\* C5 as stated: the answer is 400 "Missing ref or ver" exactly when ref is
\* absent or ver is absent or not numeric; every other request goes on to
\* the parsing of the reference.
C5_MissingIffAbsent ==
    \A r \in Reqs :
        Handled(r) =>
            /\ AnsweredMissing(r)
                   <=> (RefAbsent(query[r]) \/ VerAbsentOrNotNumeric(query[r]))
            /\ ~(RefAbsent(query[r]) \/ VerAbsentOrNotNumeric(query[r]))
                   => locals[r].outcome \in {"badref", "unknown", "verse", "chapter"}

\* C5 amended: ... exactly when ref is absent or ver is absent, not numeric
\* or the number zero.
C5_MissingIffAbsentOrZero ==
    \A r \in Reqs :
        Handled(r) =>
            LET missing == \/ RefAbsent(query[r])
                           \/ VerAbsentOrNotNumeric(query[r])
                           \/ VerZero(query[r])
            IN  /\ AnsweredMissing(r) <=> missing
                /\ ~missing => locals[r].outcome \in {"badref", "unknown", "verse", "chapter"}
                /\ missing => calls[r] = <<>>

\* a request with a reference and ver=0, answered 400 "Missing ref or ver"
C5_Witness ==
    \E r \in Reqs :
        /\ AnsweredMissing(r)
        /\ ~RefAbsent(query[r])
        /\ VerZero(query[r])

\* the resolver as documented, on the normalized name
IsAlias(n) == \E i \in 1..Len(NAME_TO_CODE) : NAME_TO_CODE[i][1] = n

AliasesFrom(n) == {i \in 1..Len(NAME_TO_CODE) : StartsWith(NAME_TO_CODE[i][1], n)}

Resolve(raw) ==
    LET n == norm(raw)
        c == ToUpperCase(SelectSeq(n, NotSpace))
    IN  IF c \in VALID_CODES THEN c
        ELSE IF IsAlias(n)
             THEN NAME_TO_CODE[CHOOSE i \in 1..Len(NAME_TO_CODE) : NAME_TO_CODE[i][1] = n][2]
        ELSE IF AliasesFrom(n) # {}
             THEN NAME_TO_CODE[CHOOSE i \in AliasesFrom(n) : \A j \in AliasesFrom(n) : i <= j][2]
        ELSE Null

\* C6: bookToCode(raw) is the documented resolver on the normalized input:
\* the code itself, else the exact alias, else the first alias with that
\* prefix, else not-found; so always a canonical code or not-found.
C6_Resolver ==
    fpc = "bookToCode.done"
        => /\ fout = Resolve(fin)
           /\ fout \in VALID_CODES \cup {Null}

\* C7: the cache holds exactly one client per translation id that reached
\* retrieval, constructed once and used by every request with that id, and
\* no entry is ever removed or replaced.
C7_CacheAppendOnly ==
    /\ [](/\ DOMAIN cache = {locals[r].ver : r \in {x \in Reqs : Retrieving(x)}}
          /\ \A id \in DOMAIN cache : built[id] = 1
          /\ \A r \in Reqs : Retrieving(r) => scraper[r] = cache[locals[r].ver])
    /\ [][\A id \in DOMAIN cache : id \in DOMAIN cache' /\ cache'[id] = cache[id]]_vars

\* two requests of one translation share the client the first one built
C7_Witness ==
    \E r1, r2 \in Reqs :
        /\ r1 # r2
        /\ Retrieving(r1) /\ Retrieving(r2)
        /\ locals[r1].ver = locals[r2].ver
        /\ scraper[r1] = scraper[r2]
        /\ pc[r1] # "done"

\* C8: a request handled as a verse lookup issues one verse fetch first and a
\* chapter fetch only once the verse race is lost; a chapter-only request
\* issues one chapter fetch; no request issues more than two calls; a request
\* answered 400 issues none.
C8_CallOrder ==
    \A r \in Reqs :
        /\ Len(calls[r]) <= 2
        /\ resp[r].status = 400 => calls[r] = <<>>
        /\ (Handled(r) /\ locals[r].outcome = "verse")
               => /\ calls[r] \in {<<"verse">>, <<"verse", "chapter">>}
                  /\ calls[r] = <<"verse", "chapter">> <=> VerseLost(r)
                  /\ upstream[r].chapter # "none" => race[r].verse \notin {"pending", "fulfilled"}
        /\ (Handled(r) /\ locals[r].outcome = "chapter")
               => calls[r] = <<"chapter">>

\* a verse request answered by the fallback after a late answer to its
\* abandoned verse fetch
C8_Witness ==
    \E r \in Reqs :
        /\ calls[r] = <<"verse", "chapter">>
        /\ race[r].verse = "timedout" /\ upstream[r].verse = "rejected"
        /\ pc[r] = "done"

\* C9: every request is answered exactly once, whatever the order of the
\* timers and of the settlements: no second response is sent, a response
\* sent is never changed, and every request received gets its response.
C9_AnsweredOnce ==
    /\ [][\A r \in Reqs : /\ sent'[r] <= 1
                          /\ sent[r] = 1 => resp'[r] = resp[r]]_vars
    /\ \A r \in Reqs : pc[r] = "new" ~> sent[r] = 1

\* a request answered by the fallback whose abandoned verse fetch resolved
\* late and whose chapter timer fired after the response
C9_Witness ==
    \E r \in Reqs :
        /\ sent[r] = 1
        /\ race[r].verse = "timedout" /\ upstream[r].verse = "resolved"
        /\ race[r].chapter = "fulfilled" /\ timer[r].chapter = "fired"

\* C10: a 200 response to a verse request with a range covers the verses
\* vStart..vEnd of the chapter, whether the direct fetch or the fallback
\* produced it.
C10_PathIndependent ==
    \A r \in Reqs :
        (Retrieving(r) /\ locals[r].outcome = "verse"
            /\ locals[r].vStart < locals[r].vEnd /\ resp[r].status = 200)
            => resp[r].covers = VersesBetween(locals[r].vStart, locals[r].vEnd)

====
